---- MODULE Spec2Model ----
(***************************************************************************)
(* PhiloTrans: the three interactive panels (translation with term lookup, *)
(* image analysis, image generation), the Gemini service functions they    *)
(* call, and the App shell that mounts one panel at a time.                *)
(*                                                                         *)
(* A JavaScript string is a sequence of tokens (a token is a piece of text *)
(* that the program never looks inside); null/undefined of a nullable      *)
(* value is the empty sequence None and a present value v is <<v>>.        *)
(* Every asynchronous handler invocation is a record in runs; each await   *)
(* is a step boundary.                                                     *)
(***************************************************************************)
EXTENDS Integers, Sequences, FiniteSets, TLC

VARIABLES
    mode,            \* App: which panel is mounted
    apiKey,          \* process.env.API_KEY is set
    aistudio,        \* window.aistudio exists
    selectedKey,     \* what window.aistudio.hasSelectedApiKey() reports
    input, output, speed, loadingT, termQuery, termDefinition, definingTerm,
    attachment, sourceFormat,                      \* TranslationPanel state
    selectedFile, previewUrl, analysis, loadingA,  \* ImageAnalysisPanel state
    prompt, size, loadingG, generatedImage, error, \* ImageGenerationPanel state
    runs,            \* handler invocations and reader callbacks in progress
    \* what the last step did, None when it did not:
    alertMsg,        \* the text it passed to window.alert
    uncaught,        \* the exception or rejection it let escape every handler
    saved,           \* the file it handed to saveAs / download
    done,            \* the handler run it completed in the mounted panel
    lastEvent        \* the handler it invoked as a unit (SpecHandlers, SpecService)

panelT == <<input, output, speed, loadingT, termQuery, termDefinition, definingTerm,
            attachment, sourceFormat>>
panelA == <<selectedFile, previewUrl, analysis, loadingA>>
panelG == <<prompt, size, loadingG, generatedImage, error>>
env == <<apiKey, aistudio>>
win == <<alertMsg, uncaught, saved>>
obs == <<done, lastEvent>>
vars == <<mode, env, selectedKey, panelT, panelA, panelG, runs, win, obs>>

----------------------------------------------------------------------------
(* Bounds of the model *)

MaxRuns == 2

----------------------------------------------------------------------------
(* Strings *)

None == <<>>
Some(v) == <<v>>

WhiteSpace == {" ", "\n", "\t"}

RECURSIVE TrimStart(_)
TrimStart(s) ==
    IF s # <<>> /\ Head(s) \in WhiteSpace THEN TrimStart(Tail(s)) ELSE s

RECURSIVE TrimEnd(_)
TrimEnd(s) ==
    IF s # <<>> /\ s[Len(s)] \in WhiteSpace THEN TrimEnd(SubSeq(s, 1, Len(s) - 1)) ELSE s

Trim(s) == TrimEnd(TrimStart(s))

StartsWith(s, p) == Len(p) <= Len(s) /\ SubSeq(s, 1, Len(p)) = p

Includes(s, p) == \E i \in 1..(Len(s) - Len(p) + 1) : SubSeq(s, i, i + Len(p) - 1) = p

\* String.prototype.split with a one-token separator
RECURSIVE SplitFrom(_, _, _)
SplitFrom(s, sep, cur) ==
    IF s = <<>> THEN <<cur>>
    ELSE IF Head(s) = sep THEN <<cur>> \o SplitFrom(Tail(s), sep, <<>>)
    ELSE SplitFrom(Tail(s), sep, Append(cur, Head(s)))

Split(s, sep) == SplitFrom(s, sep, <<>>)

\* Array.prototype.slice(0, n)
Slice(s, n) == SubSeq(s, 1, IF Len(s) < n THEN Len(s) ELSE n)

RemoveAt(s, i) == SubSeq(s, 1, i - 1) \o SubSeq(s, i + 1, Len(s))

----------------------------------------------------------------------------
(* constants.ts and types.ts *)

MODELS == [TRANSLATION_FAST |-> "gemini-2.5-flash-lite-latest",
           TRANSLATION_DEEP |-> "gemini-3-pro-preview",
           ANALYSIS         |-> "gemini-3-pro-preview",
           IMAGE_GEN        |-> "gemini-3-pro-image-preview",
           TERM_SEARCH      |-> "gemini-2.5-flash"]

PROMPTS == [SYSTEM_TRANSLATOR |-> "You are a world-class translator of philosophical literary texts, ...",
            SYSTEM_ANALYSIS   |-> "You are a philosophical analyst. ..."]

AppMode == {"translate", "analyze", "imagine"}
TranslationSpeed == {"fast", "deep"}
ImageSize == {"1K", "2K", "4K"}

ThinkingBudget == 32768

----------------------------------------------------------------------------
(* Messages the program shows or throws *)

ApiKeyMissing == <<"API Key missing">>
NoImageGenerated == <<"No image generated.">>
EntityNotFound == <<"Requested entity was not found">>

TranslationFailed == <<"Translation failed.">>
TranslateError == <<"An error occurred during translation. Please try again.">>
NoDefinitionFound == <<"No definition found.">>
CouldNotFetch == <<"Could not fetch definition.">>
DefineError == <<"Error fetching definition.">>
AnalysisFailed == <<"Analysis failed.">>
AnalyzeError == <<"Failed to analyze image. Please ensure it is a valid image file.">>
AuthFailed == <<"Authentication failed. Please try selecting the API key again.">>
GenerateError == <<"Failed to generate image. Please try again.">>
DocxNotReady == <<"Document processor not ready. Please try again in a moment.">>
DocxReadFailed == <<"Failed to read DOCX file. Please ensure it is a valid Word document.">>
UnsupportedType == <<"Unsupported file type. Please upload PDF, DOCX, Text, or Image files.">>

----------------------------------------------------------------------------
(* Requests to and replies from ai.models.generateContent *)

NoConfig == [systemInstruction |-> None, thinkingConfig |-> None,
             tools |-> <<>>, imageConfig |-> None]

TextPart(t) == [inlineData |-> None, text |-> Some(t)]
InlinePart(mimeType, data) ==
    [inlineData |-> Some([mimeType |-> mimeType, data |-> data]), text |-> None]

NoReq == [model |-> "", contents |-> <<>>, config |-> NoConfig]

\* reply: status "ok" carries text, grounding chunks and content parts;
\* status "error" carries the message of the thrown Error
NoRes == [status |-> "none", text |-> None, chunks |-> <<>>, parts |-> <<>>, message |-> <<>>]
Ok(text, chunks, parts) ==
    [status |-> "ok", text |-> text, chunks |-> chunks, parts |-> parts, message |-> <<>>]
Err(message) ==
    [status |-> "error", text |-> None, chunks |-> <<>>, parts |-> <<>>, message |-> message]

\* a || b on strings: b when a is undefined or ""
OrElse(a, b) == IF a = None \/ a[1] = <<>> THEN b ELSE a[1]

----------------------------------------------------------------------------
(* services/gemini: request building *)

TranslateModel(s) ==
    IF s = "deep" THEN MODELS.TRANSLATION_DEEP ELSE MODELS.TRANSLATION_FAST

\* a config that asks for reasoning at either speed (rejected by C8)
TranslateConfigAlwaysThinking(s) ==
    [NoConfig EXCEPT
        !.systemInstruction = Some(PROMPTS.SYSTEM_TRANSLATOR),
        !.thinkingConfig = Some([thinkingBudget |-> ThinkingBudget])]

TranslateConfig(s) ==
    [NoConfig EXCEPT
        !.systemInstruction = Some(PROMPTS.SYSTEM_TRANSLATOR),
        !.thinkingConfig = IF s = "deep" THEN Some([thinkingBudget |-> ThinkingBudget])
                           ELSE None]

TranslateContents(text, att) ==
    IF att # None
    THEN <<InlinePart(att[1].mimeType, att[1].data),
           TextPart(<<"Translate the attached document ... Context/Instructions from user: ">>
                    \o text)>>
    ELSE <<TextPart(<<"Translate the following text ...\n\n">> \o text)>>

TranslateRequest(text, att, s) ==
    [model |-> TranslateModel(s), contents |-> TranslateContents(text, att),
     config |-> TranslateConfig(s)]

DefineRequest(term) ==
    [model |-> "gemini-2.5-flash",
     contents |-> <<TextPart(<<"Define the philosophical term \"">> \o term
                             \o <<"\" in the context of literary theory.">>)>>,
     config |-> [NoConfig EXCEPT !.tools = <<"googleSearch">>]]

DefaultAnalysisPrompt == <<"Analyze this image. ...">>

AnalyzeRequest(mimeType, base64Data, p) ==
    [model |-> MODELS.ANALYSIS,
     contents |-> <<InlinePart(mimeType, base64Data), TextPart(OrElse(p, DefaultAnalysisPrompt))>>,
     config |-> [NoConfig EXCEPT !.systemInstruction = Some(PROMPTS.SYSTEM_ANALYSIS)]]

GenerateRequest(p, sz) ==
    [model |-> MODELS.IMAGE_GEN,
     contents |-> <<TextPart(p)>>,
     config |-> [NoConfig EXCEPT
                    !.imageConfig = Some([imageSize |-> sz, aspectRatio |-> "1:1"])]]

----------------------------------------------------------------------------
(* services/gemini: reply interpretation *)

\* the reply's text whenever it is defined, even when empty (rejected by C17)
TranslationOfDefinedText(res) == IF res.text = None THEN TranslationFailed ELSE res.text[1]

TranslationOf(res) == OrElse(res.text, TranslationFailed)

AnalysisOf(res) == OrElse(res.text, AnalysisFailed)

\* groundingChunks.map(c => c.web?.uri).filter(u => !!u)
RECURSIVE GroundingUrls(_)
GroundingUrls(chunks) ==
    IF chunks = <<>> THEN <<>>
    ELSE IF Head(chunks) = None \/ Head(chunks)[1] = <<>>
         THEN GroundingUrls(Tail(chunks))
         ELSE <<Head(chunks)[1]>> \o GroundingUrls(Tail(chunks))

\* what defineTerm returns: the reply's text and urls, or the fallback when the call threw
DefineResult(res) ==
    IF res.status = "ok"
    THEN [definition |-> res.text, urls |-> GroundingUrls(res.chunks)]
    ELSE [definition |-> Some(CouldNotFetch), urls |-> <<>>]

\* first part with inlineData, as a data URL; None when the loop falls through
RECURSIVE FirstInline(_)
FirstInline(parts) ==
    IF parts = <<>> THEN None
    ELSE IF Head(parts).inlineData # None
         THEN Some(<<"data:">>
                   \o OrElse(Some(Head(parts).inlineData[1].mimeType), <<"image/png">>)
                   \o <<";base64", ",">> \o Head(parts).inlineData[1].data)
         ELSE FirstInline(Tail(parts))

\* an outcome that returns nothing instead of throwing (rejected by C18)
GenerateOutcomeWithoutThrow(res) ==
    IF res.status = "ok"
    THEN [NoRes EXCEPT !.status = "ok", !.text = FirstInline(res.parts)]
    ELSE res

\* what generatePhilosophicalImage settles with: the data URL, or the thrown error
GenerateOutcome(res) ==
    IF res.status = "ok"
    THEN IF FirstInline(res.parts) # None
         THEN [NoRes EXCEPT !.status = "ok", !.text = FirstInline(res.parts)]
         ELSE Err(NoImageGenerated)
    ELSE res


----------------------------------------------------------------------------
(* Inputs the environment can supply *)

Texts == {<<>>, <<" ">>, <<"a">>}

NetworkError == <<"fetch failed">>
NotFoundError == <<"[404] ">> \o EntityNotFound \o <<".">>
ReadError == <<"FileReader error">>
KeyDialogError == <<"openSelectKey failed">>

UrlA == <<"https://a">>
UrlB == <<"https://b">>
UrlC == <<"https://c">>
UrlD == <<"https://d">>

\* a grounding chunk is its web?.uri: None when undefined or null
GroundingLists ==
    {<<>>,
     <<Some(UrlA), None, Some(UrlA), Some(UrlB), Some(UrlC), Some(UrlD)>>,
     <<Some(<<>>), Some(UrlB)>>}

NoFile == [name |-> <<>>, type |-> <<>>]

TFiles ==
    {[name |-> <<"p", ".pdf">>, type |-> <<"application/pdf">>],
     [name |-> <<"i", ".png">>, type |-> <<"image/", "png">>],
     [name |-> <<"w", ".DOCX">>, type |-> <<"application/vnd.openxmlformats">>],
     [name |-> <<"n", ".txt">>, type |-> <<"text/", "plain">>],
     [name |-> <<"x", ".xyz">>, type |-> <<>>],
     [name |-> <<"q", ".docx">>, type |-> <<"application/pdf">>]}

AFiles ==
    {[name |-> <<"a", ".png">>, type |-> <<"image/", "png">>],
     [name |-> <<"b", ".jpg">>, type |-> <<"image/", "jpeg">>]}

Bytes(file) == <<"base64 of ">> \o file.name
DataUrl(file) == <<"data:">> \o file.type \o <<";base64", ",">> \o Bytes(file)
TextOf(file) == <<"text of ">> \o file.name

TranslateReplies ==
    {Ok(None, <<>>, <<>>), Ok(Some(<<>>), <<>>, <<>>),
     Ok(Some(<<"t", "\n", "u">>), <<>>, <<>>), Err(NetworkError)}

DefineReplies ==
    {Ok(Some(<<"d">>), g, <<>>) : g \in GroundingLists}
        \cup {Ok(None, <<>>, <<>>), Err(NetworkError)}

\* the analysis the model gives names the image it was sent
AnalyzeReplies(req) ==
    {Ok(None, <<>>, <<>>), Ok(Some(<<>>), <<>>, <<>>),
     Ok(Some(<<"analysis of ">> \o req.contents[1].inlineData[1].data), <<>>, <<>>),
     Err(NetworkError)}

GenerateReplies ==
    {Ok(None, <<>>, <<>>),
     Ok(None, <<>>, <<TextPart(<<"caption">>)>>),
     Ok(None, <<>>, <<TextPart(<<"caption">>), InlinePart(<<"image/jpeg">>, <<"J">>),
                     InlinePart(<<"image/png">>, <<"P">>)>>),
     Ok(None, <<>>, <<InlinePart(<<>>, <<"Q">>)>>),
     Err(NetworkError), Err(NotFoundError)}

Replies(r) ==
    CASE r.kind = "translate" -> TranslateReplies
      [] r.kind = "define" -> DefineReplies
      [] r.kind = "analyze" -> AnalyzeReplies(r.req)
      [] r.kind = "generate" -> GenerateReplies
      [] OTHER -> {}

----------------------------------------------------------------------------
(* Handler invocations in progress *)

\* pc: "api" a generateContent call is in flight; "thrown" the service function
\* rejected before any call (res is the Error); others name the promise awaited
Run(kind, pc) ==
    [kind |-> kind, live |-> TRUE, pc |-> pc, file |-> NoFile, text |-> <<>>,
     req |-> NoReq, res |-> NoRes, calls |-> 0, ensured |-> None]

\* a call that is issued again after the first attempt (rejected by C9)
CallWithRetry(r) ==
    IF apiKey
    THEN [r EXCEPT !.pc = "api", !.calls = r.calls + 2]
    ELSE [r EXCEPT !.pc = "thrown", !.res = Err(ApiKeyMissing)]

\* getAiClient, then generateContent(r.req): r awaiting the call, or r with the
\* Error "API Key missing" thrown
Call(r) ==
    IF apiKey
    THEN [r EXCEPT !.pc = "api", !.calls = r.calls + 1]
    ELSE [r EXCEPT !.pc = "thrown", !.res = Err(ApiKeyMissing)]

\* the reply a settling run sees: the Error already thrown, or any reply of the API
Settles(r) == IF r.pc = "thrown" THEN {r.res} ELSE Replies(r)

Start(r) == Len(runs) < MaxRuns /\ runs' = Append(runs, r)

Finish(i) == runs' = RemoveAt(runs, i)

RunIds == 1..Len(runs)

NoDone == [kind |-> "none", calls |-> 0, ensured |-> None, thrown |-> None]

\* the record of run r completing in the mounted panel; thrown is the message of
\* the Error raised during the run (what console.error logged), if any
Done(r, thrown) ==
    [kind |-> r.kind, calls |-> r.calls, ensured |-> r.ensured, thrown |-> thrown]

Thrown(res) == IF res.status = "error" THEN Some(res.message) ELSE None

Emit(a, u, s) == alertMsg' = a /\ uncaught' = u /\ saved' = s
Quiet == Emit(None, None, None)

----------------------------------------------------------------------------
(* App *)

Init ==
    /\ mode = "translate"
    /\ apiKey \in BOOLEAN
    /\ aistudio \in BOOLEAN
    /\ selectedKey \in (IF aistudio THEN BOOLEAN ELSE {FALSE})
    /\ input = <<>> /\ output = <<>> /\ speed = "deep" /\ loadingT = FALSE
    /\ termQuery = <<>> /\ termDefinition = None /\ definingTerm = FALSE
    /\ attachment = None /\ sourceFormat = "text"
    /\ selectedFile = None /\ previewUrl = None /\ analysis = <<>> /\ loadingA = FALSE
    /\ prompt = <<>> /\ size = "1K" /\ loadingG = FALSE
    /\ generatedImage = None /\ error = None
    /\ runs = <<>>
    /\ alertMsg = None /\ uncaught = None /\ saved = None
    /\ done = NoDone
    /\ lastEvent = None

\* the state a panel starts with when it mounts (its useState initialisers)
MountFresh ==
    /\ input' = <<>> /\ output' = <<>> /\ speed' = "deep" /\ loadingT' = FALSE
    /\ termQuery' = <<>> /\ termDefinition' = None /\ definingTerm' = FALSE
    /\ attachment' = None /\ sourceFormat' = "text"
    /\ selectedFile' = None /\ previewUrl' = None /\ analysis' = <<>> /\ loadingA' = FALSE
    /\ prompt' = <<>> /\ size' = "1K" /\ loadingG' = FALSE
    /\ generatedImage' = None /\ error' = None

\* setMode(m): the panel of the old mode unmounts (its state is discarded and the
\* handlers it started can no longer update it), the panel of m mounts afresh
SetMode(m) ==
    /\ m # mode
    /\ mode' = m
    /\ MountFresh
    /\ runs' = [i \in RunIds |-> [runs[i] EXCEPT !.live = FALSE]]
    /\ Quiet /\ done' = NoDone /\ lastEvent' = None
    /\ UNCHANGED <<env, selectedKey>>

----------------------------------------------------------------------------
(* TranslationPanel: translate *)

ServiceAttachment(att) ==
    IF att = None THEN None
    ELSE LET parts == Split(att[1].data, ",")
         IN  Some([mimeType |-> att[1].mimeType,
                   data |-> IF Len(parts) >= 2 /\ parts[2] # <<>> THEN parts[2]
                            ELSE att[1].data])

SetInput(t) ==
    /\ mode = "translate"
    /\ input' = t
    /\ Quiet /\ done' = NoDone /\ lastEvent' = None
    /\ UNCHANGED <<mode, env, selectedKey, output, speed, loadingT, termQuery,
                   termDefinition, definingTerm, attachment, sourceFormat,
                   panelA, panelG, runs>>

SetSpeed(s) ==
    /\ mode = "translate"
    /\ speed' = s
    /\ Quiet /\ done' = NoDone /\ lastEvent' = None
    /\ UNCHANGED <<mode, env, selectedKey, input, output, loadingT, termQuery,
                   termDefinition, definingTerm, attachment, sourceFormat,
                   panelA, panelG, runs>>

\* translateContent(text, att, s) up to its await: the run it leaves pending
translateContent(text, att, s) ==
    Call([Run("translate", "start") EXCEPT !.req = TranslateRequest(text, att, s)])

\* a guard that tests the input without trimming it (rejected by C3)
TranslateBlankUntrimmed == input = <<>> /\ attachment = None

\* the early return of handleTranslate
TranslateBlank == Trim(input) = <<>> /\ attachment = None

\* disabled attribute of the Translate button
TranslateDisabled == loadingT \/ (Trim(input) = <<>> /\ attachment = None)

handleTranslate ==
    /\ mode = "translate"
    /\ IF TranslateBlank
       THEN UNCHANGED <<loadingT, output, runs>>
       ELSE /\ loadingT' = TRUE
            /\ output' = <<>>
            /\ Start(translateContent(input, ServiceAttachment(attachment), speed))
    /\ Quiet /\ done' = NoDone
    /\ UNCHANGED <<mode, env, selectedKey, input, speed, termQuery, termDefinition,
                   definingTerm, attachment, sourceFormat, panelA, panelG>>

ClickTranslate == ~TranslateDisabled /\ handleTranslate /\ lastEvent' = None

\* the continuation of handleTranslate after await translateContent(...)
TranslateResume(i) ==
    /\ runs[i].kind = "translate"
    /\ \E res \in Settles(runs[i]) :
         IF runs[i].live
         THEN /\ output' = IF res.status = "ok" THEN TranslationOf(res) ELSE TranslateError
              /\ loadingT' = FALSE
              /\ done' = Done(runs[i], Thrown(res))
         ELSE UNCHANGED <<output, loadingT>> /\ done' = NoDone
    /\ Finish(i)
    /\ Quiet /\ lastEvent' = None
    /\ UNCHANGED <<mode, env, selectedKey, input, speed, termQuery, termDefinition,
                   definingTerm, attachment, sourceFormat, panelA, panelG>>

----------------------------------------------------------------------------
(* TranslationPanel: term lookup *)

SetTermQuery(t) ==
    /\ mode = "translate"
    /\ termQuery' = t
    /\ Quiet /\ done' = NoDone /\ lastEvent' = None
    /\ UNCHANGED <<mode, env, selectedKey, input, output, speed, loadingT,
                   termDefinition, definingTerm, attachment, sourceFormat,
                   panelA, panelG, runs>>

\* defineTerm(term) up to its await
defineTerm(term) == Call([Run("define", "start") EXCEPT !.req = DefineRequest(term)])

\* the early return of handleDefineTerm
DefineBlank == Trim(termQuery) = <<>>

handleDefineTerm ==
    /\ mode = "translate"
    /\ IF DefineBlank
       THEN UNCHANGED <<definingTerm, runs>>
       ELSE /\ definingTerm' = TRUE
            /\ Start(defineTerm(termQuery))
    /\ Quiet /\ done' = NoDone
    /\ UNCHANGED <<mode, env, selectedKey, input, output, speed, loadingT, termQuery,
                   termDefinition, attachment, sourceFormat, panelA, panelG>>

\* the search button: disabled={definingTerm}
ClickDefineTerm == ~definingTerm /\ handleDefineTerm /\ lastEvent' = None

\* onKeyDown of the term field: e.key === 'Enter' && handleDefineTerm()
PressEnterTerm == handleDefineTerm /\ lastEvent' = None

\* the continuation of handleDefineTerm after await defineTerm(...): defineTerm
\* rejects only when getAiClient threw; a failed call gives its fallback result
DefineResume(i) ==
    /\ runs[i].kind = "define"
    /\ \E res \in Settles(runs[i]) :
         IF runs[i].live
         THEN /\ termDefinition' =
                   IF runs[i].pc = "thrown"
                   THEN Some([text |-> DefineError, urls |-> <<>>])
                   ELSE LET result == DefineResult(res)
                        IN  Some([text |-> OrElse(result.definition, NoDefinitionFound),
                                  urls |-> result.urls])
              /\ definingTerm' = FALSE
              /\ done' = Done(runs[i], Thrown(res))
         ELSE UNCHANGED <<termDefinition, definingTerm>> /\ done' = NoDone
    /\ Finish(i)
    /\ Quiet /\ lastEvent' = None
    /\ UNCHANGED <<mode, env, selectedKey, input, output, speed, loadingT, termQuery,
                   attachment, sourceFormat, panelA, panelG>>

\* the Sources list: termDefinition.urls.slice(0, 3)
ShownSources == IF termDefinition = None THEN <<>> ELSE Slice(termDefinition[1].urls, 3)

----------------------------------------------------------------------------
(* TranslationPanel: file import *)

Lower(t) ==
    CASE t = ".DOCX" -> ".docx"
      [] t = ".MD" -> ".md"
      [] OTHER -> t

\* file.name.match(/\.(ext1|ext2)$/i): the name's last token is its extension
NameEndsWith(file, exts) ==
    file.name # <<>> /\ Lower(file.name[Len(file.name)]) \in exts

IsPdf(file) == file.type = <<"application/pdf">>
IsBinary(file) == IsPdf(file) \/ StartsWith(file.type, <<"image/">>)
IsDocx(file) == NameEndsWith(file, {".docx"})
\* a test that takes every file for text (rejected by C12)
IsTextWhateverTheType(file) == file.name # <<>>

IsText(file) == StartsWith(file.type, <<"text/">>) \/ NameEndsWith(file, {".txt", ".md", ".json"})

\* a detection that looks at the name before the media type (rejected by C14)
DetectFormatNameFirst(file) ==
    IF IsDocx(file) THEN "docx" ELSE IF IsPdf(file) THEN "pdf" ELSE "text"

\* "Determine source format for later download"
DetectFormat(file) ==
    IF IsPdf(file) THEN "pdf" ELSE IF IsDocx(file) THEN "docx" ELSE "text"

\* handleFileSelect up to its first await (or to its end)
handleFileSelect(file) ==
    /\ mode = "translate"
    /\ IF file = NoFile
       THEN UNCHANGED <<sourceFormat, runs>> /\ Quiet
       ELSE /\ sourceFormat' = DetectFormat(file)
            /\ IF IsBinary(file)
               THEN Start([Run("fileSelect", "readAsDataURL") EXCEPT !.file = file]) /\ Quiet
               ELSE IF IsDocx(file)
               THEN Start([Run("fileSelect", "arrayBuffer") EXCEPT !.file = file]) /\ Quiet
               ELSE IF IsText(file)
               THEN Start([Run("fileSelect", "text") EXCEPT !.file = file]) /\ Quiet
               ELSE Emit(Some(UnsupportedType), None, None) /\ UNCHANGED runs
    /\ done' = NoDone
    /\ UNCHANGED <<mode, env, selectedKey, input, output, speed, loadingT, termQuery,
                   termDefinition, definingTerm, attachment, panelA, panelG>>

SelectFile(file) == handleFileSelect(file) /\ lastEvent' = None

\* reader.onload of the PDF/image branch; a failed read fires no callback the
\* handler registered
ReaderSettle(i) ==
    /\ runs[i].kind = "fileSelect" /\ runs[i].pc = "readAsDataURL"
    /\ \E ok \in BOOLEAN :
         IF ok /\ runs[i].live
         THEN /\ attachment' = Some([data |-> DataUrl(runs[i].file),
                                     mimeType |-> runs[i].file.type,
                                     name |-> runs[i].file.name])
              /\ input' = <<>>
         ELSE UNCHANGED <<attachment, input>>
    /\ Finish(i)
    /\ Quiet /\ done' = NoDone /\ lastEvent' = None
    /\ UNCHANGED <<mode, env, selectedKey, output, speed, loadingT, termQuery,
                   termDefinition, definingTerm, sourceFormat, panelA, panelG>>

\* await file.arrayBuffer() of the DOCX branch settles; window.mammoth is read then
ArrayBufferSettle(i) ==
    /\ runs[i].kind = "fileSelect" /\ runs[i].pc = "arrayBuffer"
    /\ \E ok \in BOOLEAN, mammoth \in BOOLEAN :
         IF ~ok
         THEN Emit(Some(DocxReadFailed), None, None) /\ Finish(i)
         ELSE IF ~mammoth
         THEN Emit(Some(DocxNotReady), None, None) /\ Finish(i)
         ELSE runs' = [runs EXCEPT ![i].pc = "extractRawText"] /\ Quiet
    /\ done' = NoDone /\ lastEvent' = None
    /\ UNCHANGED <<mode, env, selectedKey, panelT, panelA, panelG>>

\* await mammoth.extractRawText(...) settles
ExtractSettle(i) ==
    /\ runs[i].kind = "fileSelect" /\ runs[i].pc = "extractRawText"
    /\ \E ok \in BOOLEAN :
         IF ~ok
         THEN Emit(Some(DocxReadFailed), None, None)
              /\ UNCHANGED <<input, attachment, sourceFormat>>
         ELSE /\ Quiet
              /\ IF runs[i].live
                 THEN /\ input' = TextOf(runs[i].file)
                      /\ attachment' = None
                      /\ sourceFormat' = "docx"
                 ELSE UNCHANGED <<input, attachment, sourceFormat>>
    /\ Finish(i)
    /\ done' = NoDone /\ lastEvent' = None
    /\ UNCHANGED <<mode, env, selectedKey, output, speed, loadingT, termQuery,
                   termDefinition, definingTerm, panelA, panelG>>

\* await file.text() of the text branch settles; it is outside any try
TextSettle(i) ==
    /\ runs[i].kind = "fileSelect" /\ runs[i].pc = "text"
    /\ \E ok \in BOOLEAN :
         IF ~ok
         THEN Emit(None, Some(<<"handleFileSelect: file.text() rejected">>), None)
              /\ UNCHANGED <<input, attachment>>
         ELSE /\ Quiet
              /\ IF runs[i].live
                 THEN input' = TextOf(runs[i].file) /\ attachment' = None
                 ELSE UNCHANGED <<input, attachment>>
    /\ Finish(i)
    /\ done' = NoDone /\ lastEvent' = None
    /\ UNCHANGED <<mode, env, selectedKey, output, speed, loadingT, termQuery,
                   termDefinition, definingTerm, sourceFormat, panelA, panelG>>

\* the X button of the attachment chip, rendered only while an attachment is held
clearAttachment ==
    /\ mode = "translate"
    /\ attachment # None
    /\ attachment' = None
    /\ sourceFormat' = "text"
    /\ Quiet /\ done' = NoDone /\ lastEvent' = None
    /\ UNCHANGED <<mode, env, selectedKey, input, output, speed, loadingT, termQuery,
                   termDefinition, definingTerm, panelA, panelG, runs>>

----------------------------------------------------------------------------
(* TranslationPanel: export *)

\* a name without its extension (rejected by C15)
FilenameWithoutExtension(ext) == <<"translation-", "Date.now()">>

Filename(ext) == <<"translation-", "Date.now()", ext>>

\* a document holding the whole text as one paragraph (rejected by C16)
DocxFileOneParagraph(text) ==
    [name |-> Filename(".docx"), kind |-> "docx", blocks |-> <<text>>]

DocxFile(text) == [name |-> Filename(".docx"), kind |-> "docx", blocks |-> Split(text, "\n")]
PdfFile(text) == [name |-> Filename(".pdf"), kind |-> "pdf", blocks |-> <<<<"Translation">>, text>>]
TxtFile(text) == [name |-> Filename(".txt"), kind |-> "txt", blocks |-> <<text>>]

\* handleDownload; window.docx, window.saveAs and window.pdfMake are read at the click
handleDownload ==
    /\ mode = "translate"
    /\ IF output = <<>>
       THEN UNCHANGED runs /\ Quiet
       ELSE \E docx \in BOOLEAN, saveAs \in BOOLEAN, pdfMake \in BOOLEAN, throws \in BOOLEAN :
              IF sourceFormat = "docx" /\ docx /\ saveAs
              THEN Start([Run("download", "toBlob") EXCEPT !.text = output]) /\ Quiet
              ELSE IF sourceFormat = "pdf" /\ pdfMake
              THEN UNCHANGED runs
                   /\ IF throws
                      THEN Emit(None, Some(<<"handleDownload: pdfMake threw">>), None)
                      ELSE Emit(None, None, Some(PdfFile(output)))
              ELSE UNCHANGED runs /\ Emit(None, None, Some(TxtFile(output)))
    /\ done' = NoDone
    /\ UNCHANGED <<mode, env, selectedKey, panelT, panelA, panelG>>

\* the Download button is rendered only when output is non-empty
ClickDownload == output # <<>> /\ handleDownload /\ lastEvent' = None

\* Packer.toBlob(doc) settles: .then(saveAs), with no rejection handler
ToBlobSettle(i) ==
    /\ runs[i].kind = "download" /\ runs[i].pc = "toBlob"
    /\ \E ok \in BOOLEAN :
         IF ok
         THEN Emit(None, None, Some(DocxFile(runs[i].text)))
         ELSE Emit(None, Some(<<"handleDownload: Packer.toBlob rejected">>), None)
    /\ Finish(i)
    /\ done' = NoDone /\ lastEvent' = None
    /\ UNCHANGED <<mode, env, selectedKey, panelT, panelA, panelG>>

----------------------------------------------------------------------------
(* ImageAnalysisPanel *)

\* handleFileSelect of the analysis panel
analysisFileSelect(file) ==
    /\ mode = "analyze"
    /\ IF file = NoFile
       THEN UNCHANGED <<selectedFile, analysis, runs>>
       ELSE /\ selectedFile' = Some(file)
            /\ Start([Run("preview", "readAsDataURL") EXCEPT !.file = file])
            /\ analysis' = <<>>
    /\ Quiet /\ done' = NoDone /\ lastEvent' = None
    /\ UNCHANGED <<mode, env, selectedKey, panelT, previewUrl, loadingA, panelG>>

\* reader.onload of the preview
PreviewSettle(i) ==
    /\ runs[i].kind = "preview"
    /\ \E ok \in BOOLEAN :
         IF ok /\ runs[i].live
         THEN previewUrl' = Some(DataUrl(runs[i].file))
         ELSE UNCHANGED previewUrl
    /\ Finish(i)
    /\ Quiet /\ done' = NoDone /\ lastEvent' = None
    /\ UNCHANGED <<mode, env, selectedKey, panelT, selectedFile, analysis, loadingA, panelG>>

\* analyzeImage(file) up to its first await: getAiClient, then the FileReader promise
analyzeImage(file) ==
    IF apiKey
    THEN [Run("analyze", "readAsDataURL") EXCEPT !.file = file]
    ELSE [Run("analyze", "thrown") EXCEPT !.file = file, !.res = Err(ApiKeyMissing)]

\* the early return of handleAnalyze
AnalyzeBlank == selectedFile = None

\* disabled attribute of the Analyze button
AnalyzeDisabled == selectedFile = None \/ loadingA

handleAnalyze ==
    /\ mode = "analyze"
    /\ IF AnalyzeBlank
       THEN UNCHANGED <<loadingA, runs>>
       ELSE loadingA' = TRUE /\ Start(analyzeImage(selectedFile[1]))
    /\ Quiet /\ done' = NoDone
    /\ UNCHANGED <<mode, env, selectedKey, panelT, selectedFile, previewUrl, analysis, panelG>>

ClickAnalyze == ~AnalyzeDisabled /\ handleAnalyze /\ lastEvent' = None

\* result.split(',')[1] of the data URL read
Base64Of(url) == LET parts == Split(url, ",") IN IF Len(parts) >= 2 THEN parts[2] ELSE <<>>

\* the FileReader of analyzeImage settles. Loaded: onloadend resolves and the call
\* is made. Failed: onerror rejects (the handler's catch reports it), then
\* onloadend runs result.split on the null result and throws in the callback
AnalyzeReadSettle(i) ==
    /\ runs[i].kind = "analyze" /\ runs[i].pc = "readAsDataURL"
    /\ \E ok \in BOOLEAN :
         IF ok
         THEN /\ runs' = [runs EXCEPT ![i] =
                    [@ EXCEPT !.pc = "api", !.calls = @ + 1,
                              !.req = AnalyzeRequest(runs[i].file.type,
                                                     Base64Of(DataUrl(runs[i].file)), None)]]
              /\ Quiet /\ done' = NoDone
              /\ UNCHANGED <<analysis, loadingA>>
         ELSE /\ Finish(i)
              /\ Emit(None, Some(<<"analyzeImage: onloadend threw TypeError">>), None)
              /\ IF runs[i].live
                 THEN /\ analysis' = AnalyzeError
                      /\ loadingA' = FALSE
                      /\ done' = Done(runs[i], Some(ReadError))
                 ELSE UNCHANGED <<analysis, loadingA>> /\ done' = NoDone
    /\ lastEvent' = None
    /\ UNCHANGED <<mode, env, selectedKey, panelT, selectedFile, previewUrl, panelG>>

\* the continuation of handleAnalyze after await analyzeImage(...)
AnalyzeResume(i) ==
    /\ runs[i].kind = "analyze" /\ runs[i].pc \in {"api", "thrown"}
    /\ \E res \in Settles(runs[i]) :
         IF runs[i].live
         THEN /\ analysis' = IF res.status = "ok" THEN AnalysisOf(res) ELSE AnalyzeError
              /\ loadingA' = FALSE
              /\ done' = Done(runs[i], Thrown(res))
         ELSE UNCHANGED <<analysis, loadingA>> /\ done' = NoDone
    /\ Finish(i)
    /\ Quiet /\ lastEvent' = None
    /\ UNCHANGED <<mode, env, selectedKey, panelT, selectedFile, previewUrl, panelG>>

----------------------------------------------------------------------------
(* ImageGenerationPanel *)

SetPrompt(t) ==
    /\ mode = "imagine"
    /\ prompt' = t
    /\ Quiet /\ done' = NoDone /\ lastEvent' = None
    /\ UNCHANGED <<mode, env, selectedKey, panelT, panelA, size, loadingG,
                   generatedImage, error, runs>>

SetSize(sz) ==
    /\ mode = "imagine"
    /\ size' = sz
    /\ Quiet /\ done' = NoDone /\ lastEvent' = None
    /\ UNCHANGED <<mode, env, selectedKey, panelT, panelA, prompt, loadingG,
                   generatedImage, error, runs>>

\* the message the catch block of handleGenerate shows for an Error with message m
GenerateFailureMessage(m) == IF Includes(m, EntityNotFound) THEN AuthFailed ELSE GenerateError

\* what the caller of ensureApiKeySelected does when it has resolved with ok:
\* handleGenerate drops ok and calls generatePhilosophicalImage; handleAuthorize returns
AfterEnsure(r, ok) ==
    IF r.kind = "generate" THEN Call([r EXCEPT !.ensured = Some(ok)])
    ELSE [r EXCEPT !.ensured = Some(ok), !.pc = "return"]

\* a version that reports no key where the bridge is absent (rejected by C19)
ensureApiKeySelectedStrict(r) ==
    IF aistudio THEN [r EXCEPT !.pc = "hasSelectedApiKey"] ELSE AfterEnsure(r, FALSE)

\* ensureApiKeySelected up to its first await
ensureApiKeySelected(r) ==
    IF aistudio THEN [r EXCEPT !.pc = "hasSelectedApiKey"] ELSE AfterEnsure(r, TRUE)

\* the early return of handleGenerate
GenerateBlank == Trim(prompt) = <<>>

\* disabled attribute of the Generate button
GenerateDisabled == loadingG \/ Trim(prompt) = <<>>

\* a handler that leaves the prior result in place (rejected by C24)
handleGenerateKeepingResult ==
    /\ mode = "imagine"
    /\ IF GenerateBlank
       THEN UNCHANGED <<loadingG, error, generatedImage, runs>>
       ELSE /\ loadingG' = TRUE
            /\ UNCHANGED <<error, generatedImage>>
            /\ Start(ensureApiKeySelected(
                         [Run("generate", "start") EXCEPT !.req = GenerateRequest(prompt, size)]))
    /\ Quiet /\ done' = NoDone
    /\ UNCHANGED <<mode, env, selectedKey, panelT, panelA, prompt, size>>

handleGenerate ==
    /\ mode = "imagine"
    /\ IF GenerateBlank
       THEN UNCHANGED <<loadingG, error, generatedImage, runs>>
       ELSE /\ loadingG' = TRUE
            /\ error' = None
            /\ generatedImage' = None
            /\ Start(ensureApiKeySelected(
                         [Run("generate", "start") EXCEPT !.req = GenerateRequest(prompt, size)]))
    /\ Quiet /\ done' = NoDone
    /\ UNCHANGED <<mode, env, selectedKey, panelT, panelA, prompt, size>>

ClickGenerate == ~GenerateDisabled /\ handleGenerate /\ lastEvent' = None

\* handleAuthorize; without window.aistudio it has nothing to await
handleAuthorize ==
    /\ mode = "imagine"
    /\ IF aistudio
       THEN Start(ensureApiKeySelected(Run("authorize", "start")))
       ELSE UNCHANGED runs
    /\ Quiet /\ done' = NoDone
    /\ UNCHANGED <<mode, env, selectedKey, panelT, panelA, panelG>>

ClickAuthorize == handleAuthorize /\ lastEvent' = None

\* run r has ended in the mounted panel
Complete(r, res) ==
    IF r.live
    THEN /\ done' = Done(r, Thrown(res))
         /\ IF r.kind = "generate"
            THEN /\ loadingG' = FALSE
                 /\ IF res.status = "ok"
                    THEN generatedImage' = res.text /\ UNCHANGED error
                    ELSE error' = Some(GenerateFailureMessage(res.message))
                         /\ UNCHANGED generatedImage
            ELSE UNCHANGED <<loadingG, generatedImage, error>>
    ELSE done' = NoDone /\ UNCHANGED <<loadingG, generatedImage, error>>

\* run i moves to r; a handleAuthorize run that has returned is over
Advance(i, r) ==
    IF r.pc = "return"
    THEN Finish(i) /\ Complete(r, NoRes)
    ELSE runs' = [runs EXCEPT ![i] = r] /\ done' = NoDone
         /\ UNCHANGED <<loadingG, generatedImage, error>>

\* the first await win.aistudio.hasSelectedApiKey() settles
HasKeySettle(i) ==
    /\ runs[i].pc = "hasSelectedApiKey"
    /\ IF selectedKey
       THEN Advance(i, AfterEnsure(runs[i], TRUE))
       ELSE Advance(i, [runs[i] EXCEPT !.pc = "openSelectKey"])
    /\ Quiet /\ lastEvent' = None
    /\ UNCHANGED <<mode, env, selectedKey, panelT, panelA, prompt, size>>

\* await win.aistudio.openSelectKey() settles: the user picked a key, closed the
\* dialog without one, or the dialog failed
OpenSelectKeySettle(i) ==
    /\ runs[i].pc = "openSelectKey"
    /\ \E outcome \in {"picked", "dismissed", "failed"} :
         IF outcome = "failed"
         THEN Finish(i) /\ Complete(runs[i], Err(KeyDialogError)) /\ UNCHANGED selectedKey
         ELSE /\ selectedKey' = (selectedKey \/ outcome = "picked")
              /\ Advance(i, [runs[i] EXCEPT !.pc = "hasSelectedApiKey again"])
    /\ Quiet /\ lastEvent' = None
    /\ UNCHANGED <<mode, env, panelT, panelA, prompt, size>>

\* the second await win.aistudio.hasSelectedApiKey() settles: its value is returned
HasKeyAgainSettle(i) ==
    /\ runs[i].pc = "hasSelectedApiKey again"
    /\ Advance(i, AfterEnsure(runs[i], selectedKey))
    /\ Quiet /\ lastEvent' = None
    /\ UNCHANGED <<mode, env, selectedKey, panelT, panelA, prompt, size>>

\* the continuation of handleGenerate after await generatePhilosophicalImage(...)
GenerateResume(i) ==
    /\ runs[i].kind = "generate" /\ runs[i].pc \in {"api", "thrown"}
    /\ \E res \in Settles(runs[i]) : Complete(runs[i], GenerateOutcome(res))
    /\ Finish(i)
    /\ Quiet /\ lastEvent' = None
    /\ UNCHANGED <<mode, env, selectedKey, panelT, panelA, prompt, size>>

----------------------------------------------------------------------------
(* Handlers and service functions invoked as units *)

InvokeTranslate == handleTranslate /\ lastEvent' = Some("handleTranslate")
InvokeDefineTerm == handleDefineTerm /\ lastEvent' = Some("handleDefineTerm")
InvokeAnalyze == handleAnalyze /\ lastEvent' = Some("handleAnalyze")
InvokeGenerate == handleGenerate /\ lastEvent' = Some("handleGenerate")

ServiceAttachments ==
    {None, Some([mimeType |-> <<"application/pdf">>, data |-> <<"base64 of ", "p", ".pdf">>])}

\* a caller other than the panel awaits translateContent(text, att, s)
CallTranslateContent(text, att, s) ==
    /\ Start([translateContent(text, att, s) EXCEPT !.live = FALSE])
    /\ Quiet /\ done' = NoDone /\ lastEvent' = Some("translateContent")
    /\ UNCHANGED <<mode, env, selectedKey, panelT, panelA, panelG>>

\* translateText(text, s) = translateContent(text, null, s)
CallTranslateText(text, s) ==
    /\ Start([translateContent(text, None, s) EXCEPT !.live = FALSE])
    /\ Quiet /\ done' = NoDone /\ lastEvent' = Some("translateText")
    /\ UNCHANGED <<mode, env, selectedKey, panelT, panelA, panelG>>

----------------------------------------------------------------------------
(* Specifications *)

\* term lookup
NextTerm ==
    \/ \E m \in AppMode : SetMode(m)
    \/ \E t \in Texts : SetTermQuery(t)
    \/ ClickDefineTerm
    \/ PressEnterTerm
    \/ \E i \in RunIds : DefineResume(i)

\* translation, file import and export; the speed selector, which only picks
\* the request's model and config, is exercised in NextHandlers and NextService
NextTranslate ==
    \/ \E m \in AppMode : SetMode(m)
    \/ \E t \in Texts : SetInput(t)
    \/ ClickTranslate
    \/ \E i \in RunIds : TranslateResume(i)
    \/ \E f \in TFiles \cup {NoFile} : SelectFile(f)
    \/ \E i \in RunIds : ReaderSettle(i)
    \/ \E i \in RunIds : ArrayBufferSettle(i)
    \/ \E i \in RunIds : ExtractSettle(i)
    \/ \E i \in RunIds : TextSettle(i)
    \/ clearAttachment
    \/ ClickDownload
    \/ \E i \in RunIds : ToBlobSettle(i)

\* image analysis
NextAnalysis ==
    \/ \E m \in AppMode : SetMode(m)
    \/ \E f \in AFiles \cup {NoFile} : analysisFileSelect(f)
    \/ \E i \in RunIds : PreviewSettle(i)
    \/ ClickAnalyze
    \/ \E i \in RunIds : AnalyzeReadSettle(i)
    \/ \E i \in RunIds : AnalyzeResume(i)

\* image generation and key selection
NextGeneration ==
    \/ \E m \in AppMode : SetMode(m)
    \/ \E t \in Texts : SetPrompt(t)
    \/ \E sz \in ImageSize : SetSize(sz)
    \/ ClickGenerate
    \/ ClickAuthorize
    \/ \E i \in RunIds : HasKeySettle(i)
    \/ \E i \in RunIds : OpenSelectKeySettle(i)
    \/ \E i \in RunIds : HasKeyAgainSettle(i)
    \/ \E i \in RunIds : GenerateResume(i)

\* the four handlers that call the model, invoked whatever the buttons' state
NextHandlers ==
    \/ \E m \in AppMode : SetMode(m)
    \/ \E t \in Texts : SetInput(t)
    \/ \E t \in Texts : SetTermQuery(t)
    \/ \E t \in Texts : SetPrompt(t)
    \/ \E s \in TranslationSpeed : SetSpeed(s)
    \/ \E f \in AFiles : analysisFileSelect(f)
    \/ \E i \in RunIds : PreviewSettle(i)
    \/ InvokeTranslate
    \/ InvokeDefineTerm
    \/ InvokeAnalyze
    \/ InvokeGenerate
    \/ \E i \in RunIds : TranslateResume(i)
    \/ \E i \in RunIds : DefineResume(i)
    \/ \E i \in RunIds : AnalyzeReadSettle(i)
    \/ \E i \in RunIds : AnalyzeResume(i)
    \/ \E i \in RunIds : HasKeySettle(i)
    \/ \E i \in RunIds : OpenSelectKeySettle(i)
    \/ \E i \in RunIds : HasKeyAgainSettle(i)
    \/ \E i \in RunIds : GenerateResume(i)

\* the exported translation functions called directly
NextService ==
    \/ \E t \in Texts, a \in ServiceAttachments, s \in TranslationSpeed :
          CallTranslateContent(t, a, s)
    \/ \E t \in Texts, s \in TranslationSpeed : CallTranslateText(t, s)
    \/ \E i \in RunIds : TranslateResume(i)

Next ==
    \/ NextTerm
    \/ NextTranslate
    \/ NextAnalysis
    \/ NextGeneration
    \/ \E s \in TranslationSpeed : SetSpeed(s)

\* a page without the key-selection bridge, which only the generation panel reads
InitPlain == Init /\ ~aistudio

Spec == Init /\ [][Next]_vars
SpecTerm == Init /\ [][NextTerm]_vars
SpecTranslate == InitPlain /\ [][NextTranslate]_vars
SpecAnalysis == Init /\ [][NextAnalysis]_vars
SpecGeneration == Init /\ [][NextGeneration]_vars
SpecHandlers == Init /\ [][NextHandlers]_vars
SpecService == Init /\ [][NextService]_vars

----------------------------------------------------------------------------
(* Properties *)

\* C1: for every result slot (translation output, term definition, image
\* analysis, generated image) at most one model API call of the mounted panel
\* is in flight at any time
C1_OneCallInFlightPerSlot ==
    \A k \in {"translate", "define", "analyze", "generate"} :
        Cardinality({i \in RunIds : runs[i].live /\ runs[i].kind = k
                                     /\ runs[i].pc = "api"}) <= 1

\* C2: translateContent and translateText, given empty text and no attachment,
\* attempt no model API call: no call is in flight whose request was built from
\* the empty text and no attachment
C2_EmptyRequestRefused ==
    \A i \in RunIds : \A s \in TranslationSpeed :
        ~(runs[i].pc = "api" /\ runs[i].req = TranslateRequest(<<>>, None, s))

\* C4: the sources shown for a term lookup are the first three unique URLs of
\* the reply's grounding entries: at most three, no URL twice, and the entries
\* [a, null, a, b, c, d] are shown as [a, b, c]
C4_SourcesFirstThreeUnique ==
    /\ Len(ShownSources) <= 3
    /\ \A i, j \in 1..Len(ShownSources) :
           i # j => ShownSources[i] # ShownSources[j]
    /\ (/\ termDefinition # None
        /\ termDefinition[1].urls =
               GroundingUrls(<<Some(UrlA), None, Some(UrlA), Some(UrlB),
                               Some(UrlC), Some(UrlD)>>))
           => ShownSources = <<UrlA, UrlB, UrlC>>

\* C5: when a generation reply holds no part with inline data, the message the
\* panel shows differs from the one it shows for a failed network call
C5_NoImageMessageDistinct ==
    (done.kind = "generate" /\ done.thrown = Some(NoImageGenerated))
        => error # Some(GenerateFailureMessage(NetworkError))

\* C6: every failure of a step of a user action is caught by its handler: no
\* exception or promise rejection escapes to the page
C6_NoFailureEscapes == uncaught = None

\* C7: while a translation is being requested or is displayed, no event of the
\* mounted panel changes the format under which it will be exported
C7_ExportFormatFixed ==
    [][(mode' = mode /\ (loadingT \/ output # <<>>))
           => sourceFormat' = sourceFormat]_vars

\* C10: when ensureApiKeySelected resolved to false, handleGenerate ends with
\* the authentication-failed message and without a generated image
C10_NoKeyGivesAuthFailed ==
    (done.kind = "generate" /\ done.ensured = Some(FALSE))
        => (error = Some(AuthFailed) /\ generatedImage = None)

\* C3: a handler invoked with blank input (whitespace-only text and no
\* attachment, whitespace-only term, whitespace-only prompt, no selected file)
\* issues no model API call and leaves every panel state variable unchanged
C3_BlankInputBlocked ==
    [][/\ (/\ lastEvent' = Some("handleTranslate")
           /\ \A k \in DOMAIN input : input[k] \in WhiteSpace
           /\ attachment = None)
              => UNCHANGED <<panelT, panelA, panelG, runs>>
       /\ (/\ lastEvent' = Some("handleDefineTerm")
           /\ \A k \in DOMAIN termQuery : termQuery[k] \in WhiteSpace)
              => UNCHANGED <<panelT, panelA, panelG, runs>>
       /\ (/\ lastEvent' = Some("handleGenerate")
           /\ \A k \in DOMAIN prompt : prompt[k] \in WhiteSpace)
              => UNCHANGED <<panelT, panelA, panelG, runs>>
       /\ (/\ lastEvent' = Some("handleAnalyze")
           /\ selectedFile = None)
              => UNCHANGED <<panelT, panelA, panelG, runs>>]_vars

\* handleTranslate has just been invoked with whitespace-only text and no attachment
C3_Witness ==
    /\ lastEvent = Some("handleTranslate")
    /\ input = <<" ">> /\ attachment = None
    /\ ~loadingT /\ runs = <<>>

\* C8: the request translateContent (or translateText) sends for speed "deep"
\* carries a reasoning budget and the one it sends for "fast" carries none; both
\* carry the translator system instruction; and two requests in flight for the
\* same contents, one with a budget and one without, name different models
C8_DeepHasBudgetFastHasNone ==
    [][/\ \A t \in Texts, a \in ServiceAttachments, s \in TranslationSpeed :
            (apiKey /\ (CallTranslateContent(t, a, s)
                            \/ (a = None /\ CallTranslateText(t, s))))
               => LET q == runs'[Len(runs')].req
                  IN  /\ (q.config.thinkingConfig # None) <=> (s = "deep")
                      /\ (q.config.thinkingConfig # None)
                            => q.config.thinkingConfig[1].thinkingBudget > 0
                      /\ q.config.systemInstruction = Some(PROMPTS.SYSTEM_TRANSLATOR)
                      /\ q.contents = TranslateContents(t, a)
       /\ \A i, j \in 1..Len(runs') :
            (/\ runs'[i].pc = "api" /\ runs'[j].pc = "api"
             /\ runs'[i].req.contents = runs'[j].req.contents
             /\ runs'[i].req.config.thinkingConfig # None
             /\ runs'[j].req.config.thinkingConfig = None)
               => runs'[i].req.model # runs'[j].req.model]_vars

\* a deep and a fast request for the same text and attachment are both in flight
C8_Witness ==
    /\ Len(runs) = 2
    /\ runs[1].pc = "api" /\ runs[2].pc = "api"
    /\ runs[1].req.contents = runs[2].req.contents
    /\ runs[1].req.config.thinkingConfig # None
    /\ runs[2].req.config.thinkingConfig = None
    /\ lastEvent \in {Some("translateContent"), Some("translateText")}

\* C9 as stated: every run of translate, define-term, analyze or generate that
\* passed its input guard has issued exactly one generateContent call when it ends
C9_ExactlyOneCall ==
    done.kind \in {"translate", "define", "analyze", "generate"} => done.calls = 1

\* C9: a run of translate, define-term, analyze or generate issues at most one
\* generateContent call and never a second one; it issues none only when a step
\* before the call failed (API key missing, image file unreadable, key dialog
\* failed); and a run that ended in failure has written that kind's error
\* result to the panel
C9_AtMostOneCallNoRetry ==
    /\ \A i \in RunIds :
           runs[i].calls <= 1 /\ (runs[i].pc = "api" => runs[i].calls = 1)
    /\ done.kind \in {"translate", "define", "analyze", "generate"} =>
           /\ done.calls <= 1
           /\ done.calls = 0 =>
                  done.thrown \in {Some(ApiKeyMissing), Some(ReadError),
                                   Some(KeyDialogError)}
           /\ done.thrown # None =>
                  CASE done.kind = "translate" -> output = TranslateError
                    [] done.kind = "define" ->
                           /\ termDefinition # None
                           /\ termDefinition[1].text \in {DefineError, CouldNotFetch}
                    [] done.kind = "analyze" -> analysis = AnalyzeError
                    [] done.kind = "generate" ->
                           error \in {Some(AuthFailed), Some(GenerateError)}

\* a translation whose single call failed has just ended with the error shown
C9_Witness ==
    /\ done.kind = "translate" /\ done.calls = 1
    /\ done.thrown = Some(NetworkError)
    /\ output = TranslateError /\ ~loadingT

\* C11: when a translate request that carried an attachment completes in the
\* mounted panel, the panel no longer holds that attachment; and a new upload
\* leaves at most the uploaded attachment held
C11_AttachmentDiscardedAfterRequest ==
    [][/\ \A i \in RunIds :
            (/\ runs[i].kind = "translate" /\ runs[i].live
             /\ runs[i].req.contents[1].inlineData # None
             /\ TranslateResume(i))
               => attachment' = None
       /\ \A i \in RunIds :
            (ReaderSettle(i) /\ attachment' # attachment)
               => (attachment' # None /\ attachment'[1].name = runs[i].file.name)]_vars

\* C12: selecting a file that is not a PDF, not an image, not .docx, not text/*
\* and not .txt/.md/.json shows the unsupported-type notice, starts no read, and
\* leaves the attachment and the text input as they were
C12_UnsupportedFileRejected ==
    [][\A f \in TFiles :
          (/\ SelectFile(f)
           /\ f.type # <<"application/pdf">>
           /\ ~StartsWith(f.type, <<"image/">>)
           /\ ~StartsWith(f.type, <<"text/">>)
           /\ Lower(f.name[Len(f.name)]) \notin {".docx", ".txt", ".md", ".json"})
             => /\ alertMsg' = Some(UnsupportedType)
                /\ attachment' = attachment
                /\ input' = input
                /\ runs' = runs]_vars

\* an unsupported file has just been refused while an attachment and typed text are held
C12_Witness ==
    /\ alertMsg = Some(UnsupportedType)
    /\ attachment # None
    /\ input = <<"a">>

\* C13: a file selection that ends in a notice leaves every translation-panel
\* state variable, the export source format included, as it was before the
\* selection (stated for the selection refused at once, the unsupported type)
C13_RejectedImportChangesNothing ==
    [][\A f \in TFiles :
          (SelectFile(f) /\ alertMsg' = Some(UnsupportedType))
             => UNCHANGED panelT]_vars

\* C14: the source format is 'text' before any file is selected; selecting a
\* file sets it to 'pdf' when the media type is application/pdf, otherwise to
\* 'docx' when the name ends in .docx in any letter case, otherwise to 'text';
\* clearing the attachment sets it back to 'text'
C14_SourceFormatDetection ==
    /\ sourceFormat = "text"
    /\ [][/\ \A f \in TFiles :
               SelectFile(f) =>
                   sourceFormat' =
                       IF f.type = <<"application/pdf">> THEN "pdf"
                       ELSE IF f.name[Len(f.name)] \in {".docx", ".DOCX"} THEN "docx"
                       ELSE "text"
          /\ clearAttachment => sourceFormat' = "text"
          /\ SelectFile(NoFile) => sourceFormat' = sourceFormat]_vars

\* a file with the PDF media type and a .docx name has been selected
C14_Witness ==
    /\ sourceFormat = "pdf"
    /\ \E i \in RunIds :
          /\ runs[i].kind = "fileSelect" /\ runs[i].live
          /\ runs[i].file.name = <<"q", ".docx">>

\* C15 as stated: every export of a non-empty result is named
\* translation-<time in ms> with the extension of the source format at the
\* click: a click with format docx begins the DOCX export (which ends in a .docx
\* file), with format pdf it saves a .pdf file, with format text a .txt file
C15_ExtensionIsSourceFormat ==
    [][/\ ClickDownload =>
            CASE sourceFormat = "docx" -> saved' = None /\ Len(runs') = Len(runs) + 1
              [] sourceFormat = "pdf" ->
                     saved' # None =>
                         saved'[1].name = <<"translation-", "Date.now()", ".pdf">>
              [] sourceFormat = "text" ->
                     /\ saved' # None
                     /\ saved'[1].name = <<"translation-", "Date.now()", ".txt">>
       /\ \A i \in RunIds :
            (ToBlobSettle(i) /\ saved' # None) =>
                saved'[1].name = <<"translation-", "Date.now()", ".docx">>]_vars

\* C15: every export of a non-empty result is named translation-<time in ms>
\* with an extension; the extension is that of the source format at the click
\* (.docx, .pdf) or, when the library for that format is not loaded, .txt; for
\* format text it is .txt; and the file saved is of the kind its extension names
C15_ExtensionIsSourceFormatOrTxt ==
    [][/\ ClickDownload =>
            /\ saved' # None =>
                  /\ saved'[1].name \in
                        {<<"translation-", "Date.now()", e>> :
                            e \in (IF sourceFormat = "pdf" THEN {".pdf", ".txt"}
                                   ELSE {".txt"})}
                  /\ saved'[1].name[3] = ".pdf" <=> saved'[1].kind = "pdf"
                  /\ saved'[1].name[3] = ".txt" <=> saved'[1].kind = "txt"
                  /\ saved'[1].blocks # <<>>
            /\ Len(runs') = Len(runs) + 1 => (sourceFormat = "docx" /\ saved' = None)
       /\ \A i \in RunIds :
            (ToBlobSettle(i) /\ saved' # None) =>
                /\ saved'[1].name = <<"translation-", "Date.now()", ".docx">>
                /\ saved'[1].kind = "docx"]_vars

\* a result whose source format is docx has just been exported as a .txt file
C15_Witness ==
    /\ saved # None
    /\ saved[1].name = <<"translation-", "Date.now()", ".txt">>
    /\ sourceFormat = "docx"
    /\ output # <<>>

\* C16: a DOCX export holds one paragraph per line of the text split on
\* newline, in order (no paragraph holds a newline, and the paragraphs joined
\* by newlines are the text); a PDF export holds the header 'Translation'
\* followed by exactly one body block holding the whole text, newlines included
C16_ExportStructure ==
    [][/\ \A i \in RunIds :
            (ToBlobSettle(i) /\ saved' # None) =>
                LET b == saved'[1].blocks
                    Joined[k \in 0..Len(b)] ==
                        IF k = 0 THEN <<>>
                        ELSE IF k = 1 THEN b[1]
                        ELSE Joined[k - 1] \o <<"\n">> \o b[k]
                IN  /\ Len(b) = 1 + Cardinality({k \in 1..Len(runs[i].text) :
                                                      runs[i].text[k] = "\n"})
                    /\ \A k \in 1..Len(b) : \A j \in 1..Len(b[k]) : b[k][j] # "\n"
                    /\ Joined[Len(b)] = runs[i].text
       /\ (ClickDownload /\ saved' # None /\ sourceFormat = "docx") =>
              saved'[1].kind # "docx"
       /\ (ClickDownload /\ saved' # None /\ saved'[1].kind = "pdf") =>
              saved'[1].blocks = <<<<"Translation">>, output>>]_vars

\* a two-line translation has just been exported as a DOCX of two paragraphs
C16_Witness ==
    /\ saved # None
    /\ saved[1].kind = "docx"
    /\ saved[1].blocks = <<<<"t">>, <<"u">>>>

\* C17: when the model call of a translation or an analysis returns a reply,
\* the handler receives a non-empty string and no error: the reply's text when
\* it is present and non-empty, otherwise 'Translation failed.' /
\* 'Analysis failed.'; an error is raised only by a call that failed
C17_ReplyGivesNonEmptyString ==
    [][/\ \A i \in RunIds :
            (/\ runs[i].kind = "translate" /\ runs[i].live /\ runs[i].pc = "api"
             /\ TranslateResume(i))
               => /\ done'.thrown \in
                         {None} \cup {Some(res.message) :
                                         res \in {x \in TranslateReplies : x.status = "error"}}
                  /\ done'.thrown = None =>
                         /\ output' # <<>>
                         /\ output' \in
                               {IF res.text # None /\ res.text[1] # <<>>
                                THEN res.text[1] ELSE <<"Translation failed.">> :
                                    res \in {x \in TranslateReplies : x.status = "ok"}}
       /\ \A i \in RunIds :
            (/\ runs[i].kind = "analyze" /\ runs[i].live /\ runs[i].pc = "api"
             /\ AnalyzeResume(i))
               => /\ done'.thrown \in
                         {None} \cup {Some(res.message) :
                                         res \in {x \in AnalyzeReplies(runs[i].req) :
                                                     x.status = "error"}}
                  /\ done'.thrown = None =>
                         /\ analysis' # <<>>
                         /\ analysis' \in
                               {IF res.text # None /\ res.text[1] # <<>>
                                THEN res.text[1] ELSE <<"Analysis failed.">> :
                                    res \in {x \in AnalyzeReplies(runs[i].req) :
                                                x.status = "ok"}}]_vars

\* a translation whose reply carried no usable text has ended with the fallback
C17_Witness ==
    /\ done.kind = "translate" /\ done.calls = 1 /\ done.thrown = None
    /\ output = <<"Translation failed.">>

\* C18: a generation whose call returned a reply shows the image built from the
\* first part, in reply order, that bears inline data (its media type, or
\* image/png when it names none, and its bytes); when no part bears inline data
\* it fails with 'No image generated.' and shows no image
C18_FirstInlinePartOrError ==
    [][\A i \in RunIds :
          (/\ runs[i].kind = "generate" /\ runs[i].live /\ runs[i].pc = "api"
           /\ GenerateResume(i))
             => LET ok == {x \in GenerateReplies : x.status = "ok"}
                    Inline(x) == {k \in 1..Len(x.parts) : x.parts[k].inlineData # None}
                    First(x) == CHOOSE k \in Inline(x) : \A j \in Inline(x) : k <= j
                    Url(p) == <<"data:">>
                                 \o (IF p.mimeType = <<>> THEN <<"image/png">>
                                     ELSE p.mimeType)
                                 \o <<";base64", ",">> \o p.data
                IN  /\ done'.thrown \in
                          {None, Some(<<"No image generated.">>)}
                              \cup {Some(x.message) : x \in GenerateReplies \ ok}
                    /\ done'.thrown = None =>
                          generatedImage' \in
                              {Some(Url(x.parts[First(x)].inlineData[1])) :
                                  x \in {y \in ok : Inline(y) # {}}}
                    /\ done'.thrown # None =>
                          (generatedImage' = None /\ error' # None)]_vars

\* the image shown is the first of the two inline parts of the reply
C18_Witness ==
    /\ done.kind = "generate" /\ done.thrown = None
    /\ generatedImage = Some(<<"data:", "image/jpeg", ";base64", ",", "J">>)
    /\ error = None

\* C19 as stated, for the call that opened the key-selection flow: once the
\* flow has settled the call goes on to read the key status, which it returns
C19_FlowThenStatus ==
    [][\A i \in RunIds :
          OpenSelectKeySettle(i) =>
              (Len(runs') = Len(runs) /\ runs'[i].pc = "hasSelectedApiKey again")]_vars

\* C19: ensureApiKeySelected returns true without opening the key-selection
\* flow when window.aistudio is absent or a key is already selected, however
\* many calls are made; it opens the flow only when the bridge exists and no key
\* is selected, once per call, and then returns the key status read after the
\* flow, unless the flow itself failed, in which case the call rejects
C19_EnsureApiKeySelected ==
    [][/\ (Len(runs') = Len(runs) + 1 /\ runs'[Len(runs')].kind \in {"generate", "authorize"})
             => LET r == runs'[Len(runs')]
                IN  /\ r.pc # "openSelectKey"
                    /\ ~aistudio => (r.ensured = Some(TRUE) /\ r.pc \in {"api", "thrown"})
                    /\ aistudio => (r.ensured = None /\ r.pc = "hasSelectedApiKey")
       /\ \A i \in RunIds :
            HasKeySettle(i) =>
                IF selectedKey
                THEN /\ selectedKey'
                     /\ IF runs[i].kind = "generate"
                        THEN runs'[i].ensured = Some(TRUE) /\ runs'[i].pc \in {"api", "thrown"}
                        ELSE Len(runs') = Len(runs) - 1
                             /\ (runs[i].live => done'.ensured = Some(TRUE))
                ELSE aistudio /\ runs'[i].pc = "openSelectKey" /\ runs'[i].ensured = None
       /\ \A i \in RunIds :
            OpenSelectKeySettle(i) =>
                \/ Len(runs') = Len(runs) /\ runs'[i].pc = "hasSelectedApiKey again"
                \/ /\ Len(runs') = Len(runs) - 1
                   /\ runs[i].live => (done'.thrown = Some(KeyDialogError)
                                         /\ done'.ensured = None)
       /\ \A i \in RunIds :
            HasKeyAgainSettle(i) =>
                IF runs[i].kind = "generate"
                THEN runs'[i].ensured = Some(selectedKey)
                     /\ runs'[i].pc \in {"api", "thrown"}
                ELSE Len(runs') = Len(runs) - 1
                     /\ (runs[i].live => done'.ensured = Some(selectedKey))
       /\ \A i \in RunIds :
            (/\ Len(runs') = Len(runs)
             /\ runs'[i].pc = "openSelectKey" /\ runs[i].pc # "openSelectKey")
               => (aistudio /\ ~selectedKey /\ runs[i].pc = "hasSelectedApiKey")]_vars

\* two calls in a row have found the key already selected and returned true
\* without the flow being opened
C19_Witness ==
    /\ aistudio /\ selectedKey
    /\ done.kind = "authorize" /\ done.ensured = Some(TRUE)
    /\ \E i \in RunIds : runs[i].kind = "generate" /\ runs[i].ensured = Some(TRUE)

\* C20: two requests in flight for distinct modes (fast translation, deep
\* translation, analysis, image generation, term lookup) never name the same
\* model, and never carry the same system instruction unless both are translations
C20_ModesShareNothing ==
    \A i, j \in RunIds :
        (/\ runs[i].pc = "api" /\ runs[j].pc = "api"
         /\ <<runs[i].kind, runs[i].req.config.thinkingConfig # None>>
                # <<runs[j].kind, runs[j].req.config.thinkingConfig # None>>)
           => /\ runs[i].req.model # runs[j].req.model
              /\ (/\ runs[i].req.config.systemInstruction # None
                  /\ runs[i].req.config.systemInstruction
                         = runs[j].req.config.systemInstruction)
                    => (runs[i].kind = "translate" /\ runs[j].kind = "translate")


\* C21: an analysis shown in the analysis panel that the model produced for an
\* image is the analysis of the file that is currently selected
C21_AnalysisOfSelectedFile ==
    (analysis # <<>> /\ analysis[1] = "analysis of ")
        => /\ selectedFile # None
           /\ analysis = <<"analysis of ">> \o Bytes(selectedFile[1])


\* C22: whenever the translation panel holds an attachment of media type
\* application/pdf, the export source format is 'pdf'
C22_PdfAttachmentHasPdfFormat ==
    (attachment # None /\ attachment[1].mimeType = <<"application/pdf">>)
        => sourceFormat = "pdf"


\* C23: for each panel the busy flag tracks the requests of the mounted panel:
\* it is never true with no request of its handler in progress, and never false
\* while a model API call of its handler is still in flight
C23_BusyIffInFlight ==
    \A p \in {<<"translate", loadingT>>, <<"define", definingTerm>>,
               <<"analyze", loadingA>>, <<"generate", loadingG>>} :
        /\ p[2] => \E i \in RunIds : runs[i].live /\ runs[i].kind = p[1]
        /\ (\E i \in RunIds : runs[i].live /\ runs[i].kind = p[1]
                                /\ runs[i].pc = "api") => p[2]


\* C24: in the mounted image-generation panel an error message and a generated
\* image are never both present; while a generate request of the panel is in
\* progress both are absent; and in the state in which a generate request has
\* just completed exactly one of them is present
C24_ErrorXorImage ==
    /\ ~(error # None /\ generatedImage # None)
    /\ (\E i \in RunIds : runs[i].live /\ runs[i].kind = "generate")
           => (error = None /\ generatedImage = None)
    /\ done.kind = "generate" => ((error # None) # (generatedImage # None))

\* a generate request of the mounted panel has just failed at its API call: the
\* panel is idle again and only the error message is present
C24_Witness ==
    /\ done.kind = "generate" /\ done.calls = 1 /\ done.thrown = Some(NetworkError)
    /\ error = Some(GenerateError) /\ generatedImage = None
    /\ ~loadingG

====
